---------------------------- MODULE Spec2Model ----------------------------
(***************************************************************************)
(* The 2D camera of GameOfLife_wgpu (src/src/camera.rs) and the window     *)
(* event handler that drives it (src/src/main.rs, App::window_event).      *)
(*                                                                         *)
(* f32 values are modelled as exact rationals <<n, d>> (d > 0, lowest      *)
(* terms) plus the three IEEE-754 special values, encoded with d = 0:      *)
(* <<1, 0>> = +inf, <<-1, 0>> = -inf, <<0, 0>> = NaN.  Rounding of finite  *)
(* results to 24 bits and signed zeros are not modelled: every finite      *)
(* result is the exact real result.                                        *)
(***************************************************************************)
EXTENDS Integers, Sequences, FiniteSets, TLC

---------------------------------------------------------------------------
(* f32 arithmetic *)

NaN == <<0, 0>>
PInf == <<1, 0>>
NInf == <<-1, 0>>

Abs(x) == IF x < 0 THEN -x ELSE x

Sign(x) == IF x < 0 THEN -1 ELSE IF x > 0 THEN 1 ELSE 0

RECURSIVE Gcd(_, _)
Gcd(a, b) == IF b = 0 THEN a ELSE Gcd(b, a % b)

\* The rational n/d (d # 0) in lowest terms with a positive denominator.
Norm(n, d) ==
    LET g == Gcd(Abs(n), Abs(d))
        s == IF d < 0 THEN -1 ELSE 1
    IN  <<s * (n \div g), s * (d \div g)>>

\* An integer literal as an f32.
I(n) == <<n, 1>>

IsNaN(a) == a = NaN
IsInf(a) == a[2] = 0 /\ a[1] # 0
IsFinite(a) == a[2] # 0

FNeg(a) == <<-a[1], a[2]>>

FAdd(a, b) ==
    IF IsNaN(a) \/ IsNaN(b) THEN NaN
    ELSE IF IsInf(a) /\ IsInf(b) THEN (IF a = b THEN a ELSE NaN)
    ELSE IF IsInf(a) THEN a
    ELSE IF IsInf(b) THEN b
    ELSE LET g == Gcd(a[2], b[2])
             l == (a[2] \div g) * b[2]
         IN  Norm(a[1] * (l \div a[2]) + b[1] * (l \div b[2]), l)

FSub(a, b) == FAdd(a, FNeg(b))

FMul(a, b) ==
    IF IsNaN(a) \/ IsNaN(b) THEN NaN
    ELSE IF IsInf(a) \/ IsInf(b)
         THEN (IF a[1] = 0 \/ b[1] = 0 THEN NaN
               ELSE <<Sign(a[1]) * Sign(b[1]), 0>>)
    ELSE LET g1 == Gcd(Abs(a[1]), b[2])
             g2 == Gcd(Abs(b[1]), a[2])
         IN  Norm((a[1] \div g1) * (b[1] \div g2), (a[2] \div g2) * (b[2] \div g1))

FDiv(a, b) ==
    IF IsNaN(a) \/ IsNaN(b) THEN NaN
    ELSE IF IsInf(a) THEN (IF IsInf(b) THEN NaN
                           ELSE <<a[1] * (IF b[1] < 0 THEN -1 ELSE 1), 0>>)
    ELSE IF IsInf(b) THEN I(0)
    ELSE IF b[1] = 0 THEN (IF a[1] = 0 THEN NaN ELSE <<Sign(a[1]), 0>>)
    ELSE FMul(a, Norm(b[2], b[1]))

\* IEEE comparisons: every comparison with NaN is false.
FLt(a, b) ==
    /\ ~IsNaN(a) /\ ~IsNaN(b)
    /\ IF IsInf(a) \/ IsInf(b)
       THEN a # b /\ (a = NInf \/ b = PInf)
       ELSE FSub(a, b)[1] < 0

FGt(a, b) == FLt(b, a)

FEq(a, b) == ~IsNaN(a) /\ ~IsNaN(b) /\ a = b

FLe(a, b) == FLt(a, b) \/ FEq(a, b)

---------------------------------------------------------------------------
(* float_cmp::approx_eq!(f32, a, b) with the default F32Margin *)

\* F32Margin::default(): epsilon = f32::EPSILON = 2^-EPSILON_EXP, ulps = 4.
EPSILON_EXP == 23
MARGIN_ULPS_LOG2 == 2
MANTISSA_BITS == 23

RECURSIVE Pow2(_)
Pow2(k) == IF k <= 0 THEN 1 ELSE 2 * Pow2(k - 1)

RECURSIVE Log2Floor(_)
Log2Floor(q) == IF q <= 1 THEN 0 ELSE 1 + Log2Floor(q \div 2)

\* t such that the margin around a magnitude M = mn/md is 2^-t: the larger of
\* epsilon and 4 ulps, an ulp of M being 2^(floor(log2 M) - 23).  Below 1/2
\* four ulps are smaller than epsilon.
MarginExp(mn, md) ==
    IF mn >= md
    THEN LET t == MANTISSA_BITS - MARGIN_ULPS_LOG2 - Log2Floor(mn \div md)
         IN  IF t < 0 THEN 0 ELSE t
    ELSE IF 2 * mn >= md
    THEN MANTISSA_BITS - MARGIN_ULPS_LOG2 + 1
    ELSE EPSILON_EXP

\* self == other, or |self - other| <= epsilon, or at most 4 ulps apart.  Two
\* NaNs of the same bit pattern are 0 ulps apart; the model has one NaN.
ApproxEq(a, b) ==
    IF IsNaN(a) \/ IsNaN(b) THEN a = b
    ELSE IF IsInf(a) \/ IsInf(b) THEN a = b
    ELSE LET diff == FSub(a, b)
             n == Abs(diff[1])
             m == IF FLt(<<Abs(a[1]), a[2]>>, <<Abs(b[1]), b[2]>>)
                  THEN <<Abs(b[1]), b[2]>> ELSE <<Abs(a[1]), a[2]>>
         IN  n = 0 \/ diff[2] \div n >= Pow2(MarginExp(m[1], m[2]))

\* Mutant of f32_clamp: the upper bound is not applied.
f32_clamp_no_max(x, min, max) == IF FLt(x, min) THEN min ELSE x

\* f32::clamp: a NaN self is returned as it is.
f32_clamp(x, min, max) ==
    IF FLt(x, min) THEN min ELSE IF FGt(x, max) THEN max ELSE x

---------------------------------------------------------------------------
(* camera.rs *)

ZOOM_MIN == <<1, 10>>
ZOOM_MAX == <<10, 1>>
ZOOM_DEFAULT_SENSITIVITY == <<1, 10>>

\* Vector2<f32> arithmetic (nalgebra), component by component.
VSub(u, v) == <<FSub(u[1], v[1]), FSub(u[2], v[2])>>
VAdd(u, v) == <<FAdd(u[1], v[1]), FAdd(u[2], v[2])>>
VDivScalar(u, k) == <<FDiv(u[1], k), FDiv(u[2], k)>>

Camera_new(viewport_size) ==
    [ position |-> <<I(0), I(0)>>,
      zoom |-> I(1),
      zoom_sensitivity |-> ZOOM_DEFAULT_SENSITIVITY,
      viewport_size |-> viewport_size,
      lmb_is_pressed |-> FALSE,
      cursor_position |-> <<I(0), I(0)>> ]

set_position(cam, position) == [cam EXCEPT !.position = position]

\* Mutant of screen_to_world_position: the y axis is not inverted.
screen_to_world_position_no_flip(cam, screen_pos) ==
    LET screen_center == <<FDiv(I(cam.viewport_size.width), I(2)),
                           FDiv(I(cam.viewport_size.height), I(2))>>
    IN  VAdd(cam.position, VDivScalar(VSub(screen_pos, screen_center), cam.zoom))

screen_to_world_position(cam, screen_pos) ==
    LET screen_center == <<FDiv(I(cam.viewport_size.width), I(2)),
                           FDiv(I(cam.viewport_size.height), I(2))>>
        screen_offset == VSub(screen_pos, screen_center)
        world_offset0 == VDivScalar(screen_offset, cam.zoom)
        world_offset == <<world_offset0[1], FNeg(world_offset0[2])>>
    IN  VAdd(cam.position, world_offset)

\* Mutant of mouse_scroll: zoom changes about the viewport centre, position
\* is left alone.
mouse_scroll_keep_position(cam, scroll) ==
    LET new_zoom == f32_clamp(FAdd(cam.zoom, FMul(scroll, cam.zoom_sensitivity)),
                              ZOOM_MIN, ZOOM_MAX)
    IN  IF ApproxEq(cam.zoom, new_zoom) THEN cam ELSE [cam EXCEPT !.zoom = new_zoom]

\* Mutant of mouse_scroll: while dragging, zoom changes about the viewport
\* centre and position is left alone.
mouse_scroll_drag_aware(cam, scroll) ==
    LET new_zoom == f32_clamp(FAdd(cam.zoom, FMul(scroll, cam.zoom_sensitivity)),
                              ZOOM_MIN, ZOOM_MAX)
        zoomed == [cam EXCEPT !.zoom = new_zoom]
        cursor_position_delta ==
            VSub(screen_to_world_position(zoomed, cam.cursor_position),
                 screen_to_world_position(cam, cam.cursor_position))
    IN  IF ApproxEq(cam.zoom, new_zoom) THEN cam
        ELSE IF cam.lmb_is_pressed THEN zoomed
        ELSE [zoomed EXCEPT !.position = VSub(cam.position, cursor_position_delta)]

\* Mutant of mouse_scroll: the zoom is clamped only after the early return
\* and the shift of position have been computed from the unclamped zoom.
mouse_scroll_clamp_late(cam, scroll) ==
    LET raw_zoom == FAdd(cam.zoom, FMul(scroll, cam.zoom_sensitivity))
        unclamped == [cam EXCEPT !.zoom = raw_zoom]
        cursor_position_delta ==
            VSub(screen_to_world_position(unclamped, cam.cursor_position),
                 screen_to_world_position(cam, cam.cursor_position))
    IN  IF ApproxEq(cam.zoom, raw_zoom) THEN cam
        ELSE [cam EXCEPT !.zoom = f32_clamp(raw_zoom, ZOOM_MIN, ZOOM_MAX),
                         !.position = VSub(cam.position, cursor_position_delta)]

mouse_scroll(cam, scroll) ==
    LET zoom_delta == FMul(scroll, cam.zoom_sensitivity)
        old_zoom == cam.zoom
        new_zoom == f32_clamp(FAdd(old_zoom, zoom_delta), ZOOM_MIN, ZOOM_MAX)
    IN  IF ApproxEq(old_zoom, new_zoom) THEN cam
        ELSE LET old_cursor_world_position ==
                     screen_to_world_position(cam, cam.cursor_position)
                 zoomed == [cam EXCEPT !.zoom = new_zoom]
                 new_cursor_world_position ==
                     screen_to_world_position(zoomed, cam.cursor_position)
                 cursor_position_delta ==
                     VSub(new_cursor_world_position, old_cursor_world_position)
             IN  [zoomed EXCEPT !.position = VSub(cam.position, cursor_position_delta)]

set_zoom_sensitivity(cam, zoom_sensitivity) ==
    [cam EXCEPT !.zoom_sensitivity = zoom_sensitivity]

\* Mutant of set_viewport_size: width and height are swapped.
set_viewport_size_swapped(cam, viewport_size) ==
    [cam EXCEPT !.viewport_size =
        [width |-> viewport_size.height, height |-> viewport_size.width]]

set_viewport_size(cam, viewport_size) ==
    [cam EXCEPT !.viewport_size = viewport_size]

\* Mutant of calculate_view_projection_matrix: the bounds are the full
\* extents W / zoom and H / zoom instead of the half extents.
calculate_view_projection_matrix_full_extent(cam) ==
    LET half_w == FDiv(I(cam.viewport_size.width), cam.zoom)
        half_h == FDiv(I(cam.viewport_size.height), cam.zoom)
    IN  [ left |-> FNeg(half_w), right |-> half_w,
          bottom |-> FNeg(half_h), top |-> half_h,
          znear |-> I(-1), zfar |-> I(1),
          translation |-> <<FNeg(cam.position[1]), FNeg(cam.position[2]), I(0)>> ]

\* The arguments of Matrix4::new_orthographic and of Matrix4::new_translation.
calculate_view_projection_matrix(cam) ==
    LET half_w == FDiv(I(cam.viewport_size.width), FMul(I(2), cam.zoom))
        half_h == FDiv(I(cam.viewport_size.height), FMul(I(2), cam.zoom))
    IN  [ left |-> FNeg(half_w), right |-> half_w,
          bottom |-> FNeg(half_h), top |-> half_h,
          znear |-> I(-1), zfar |-> I(1),
          translation |-> <<FNeg(cam.position[1]), FNeg(cam.position[2]), I(0)>> ]

\* Mutant of update_lmb_state: a press forgets the tracked cursor position.
update_lmb_state_reset_cursor(cam, lmb_is_pressed) ==
    IF lmb_is_pressed
    THEN [cam EXCEPT !.lmb_is_pressed = TRUE, !.cursor_position = <<I(0), I(0)>>]
    ELSE [cam EXCEPT !.lmb_is_pressed = FALSE]

update_lmb_state(cam, lmb_is_pressed) ==
    [cam EXCEPT !.lmb_is_pressed = lmb_is_pressed]

\* Mutant of update_cursor_position: the drag flag is not consulted.
update_cursor_position_always_drag(cam, cursor_position) ==
    [cam EXCEPT
       !.position =
          <<FAdd(cam.position[1],
                 FDiv(FSub(cam.cursor_position[1], cursor_position[1]), cam.zoom)),
            FSub(cam.position[2],
                 FDiv(FSub(cam.cursor_position[2], cursor_position[2]), cam.zoom))>>,
       !.cursor_position = cursor_position]

\* Mutant of update_cursor_position: y is added like x, not subtracted.
update_cursor_position_same_sign(cam, cursor_position) ==
    IF cam.lmb_is_pressed
       /\ ~(ApproxEq(cam.cursor_position[1], I(0)) /\ ApproxEq(cam.cursor_position[2], I(0)))
    THEN [cam EXCEPT
            !.position =
               <<FAdd(cam.position[1],
                      FDiv(FSub(cam.cursor_position[1], cursor_position[1]), cam.zoom)),
                 FAdd(cam.position[2],
                      FDiv(FSub(cam.cursor_position[2], cursor_position[2]), cam.zoom))>>,
            !.cursor_position = cursor_position]
    ELSE [cam EXCEPT !.cursor_position = cursor_position]

\* Mutant of update_cursor_position: the pixel delta is not divided by zoom.
update_cursor_position_no_zoom(cam, cursor_position) ==
    IF cam.lmb_is_pressed
       /\ ~(ApproxEq(cam.cursor_position[1], I(0)) /\ ApproxEq(cam.cursor_position[2], I(0)))
    THEN [cam EXCEPT
            !.position =
               <<FAdd(cam.position[1], FSub(cam.cursor_position[1], cursor_position[1])),
                 FSub(cam.position[2], FSub(cam.cursor_position[2], cursor_position[2]))>>,
            !.cursor_position = cursor_position]
    ELSE [cam EXCEPT !.cursor_position = cursor_position]

\* Mutant of update_cursor_position: the early return does not store the
\* new cursor position.
update_cursor_position_stale_sentinel(cam, cursor_position) ==
    IF cam.lmb_is_pressed
       /\ ApproxEq(cam.cursor_position[1], I(0)) /\ ApproxEq(cam.cursor_position[2], I(0))
    THEN cam
    ELSE IF cam.lmb_is_pressed
    THEN [cam EXCEPT
            !.position =
               <<FAdd(cam.position[1],
                      FDiv(FSub(cam.cursor_position[1], cursor_position[1]), cam.zoom)),
                 FSub(cam.position[2],
                      FDiv(FSub(cam.cursor_position[2], cursor_position[2]), cam.zoom))>>,
            !.cursor_position = cursor_position]
    ELSE [cam EXCEPT !.cursor_position = cursor_position]

\* Mutant of update_cursor_position: no special case for the all-zero
\* tracked cursor position.
update_cursor_position_no_sentinel(cam, cursor_position) ==
    IF cam.lmb_is_pressed
    THEN [cam EXCEPT
            !.position =
               <<FAdd(cam.position[1],
                      FDiv(FSub(cam.cursor_position[1], cursor_position[1]), cam.zoom)),
                 FSub(cam.position[2],
                      FDiv(FSub(cam.cursor_position[2], cursor_position[2]), cam.zoom))>>,
            !.cursor_position = cursor_position]
    ELSE [cam EXCEPT !.cursor_position = cursor_position]

update_cursor_position(cam, cursor_position) ==
    IF /\ ApproxEq(cam.cursor_position[1], I(0))
       /\ ApproxEq(cam.cursor_position[2], I(0))
       /\ cam.lmb_is_pressed
    THEN [cam EXCEPT !.cursor_position = cursor_position]
    ELSE IF cam.lmb_is_pressed
    THEN LET delta_x == FSub(cam.cursor_position[1], cursor_position[1])
             delta_y == FSub(cam.cursor_position[2], cursor_position[2])
         IN  [cam EXCEPT
                !.position = <<FAdd(cam.position[1], FDiv(delta_x, cam.zoom)),
                               FSub(cam.position[2], FDiv(delta_y, cam.zoom))>>,
                !.cursor_position = cursor_position]
    ELSE [cam EXCEPT !.cursor_position = cursor_position]

---------------------------------------------------------------------------
(* main.rs: App, InputState and App::window_event *)

VARIABLES
    camera,        \* AppContext::camera
    input_state,   \* App::input_state
    scale_factor,  \* graphics_context.window.scale_factor()
    push_constants,\* the view-projection arguments last used by App::render
    app_status,    \* "running", "exiting" (event_loop.exit()) or "panicked"
    prev,          \* camera as it was before the last operation
    last,          \* the last window event and the camera method it called
    steps          \* number of operations so far

vars == <<camera, input_state, scale_factor, push_constants, app_status,
          prev, last, steps>>

\* Longest run of operations explored.
MaxSteps == 4

\* Window scale factors (physical pixels per logical pixel).
ScaleFactors == {1, 2}

\* Physical inner sizes of the window: at creation, and in Resized events
\* (graphics_context.rs sets a minimum inner size of 1 x 1).
InitialSizes == {[width |-> 800, height |-> 600]}
ResizedSizes == {[width |-> 1600, height |-> 1200], [width |-> 641, height |-> 1]}

\* Physical cursor positions of CursorMoved events.
CursorPositions == {<<0, 0>>, <<100, 100>>, <<80, 90>>}

MouseButtons == {"Left", "Right"}

\* Window events that App::window_event has no arm for.
OtherEvents == {"MouseWheel_LineDelta", "MouseWheel_PixelDelta"}

\* Arguments of the camera methods that no window event reaches.
Scrolls == {I(-1), I(0), I(1), NaN, PInf}
Sensitivities == {I(0), I(5), <<1, 16777216>>}
Positions == {<<I(7), I(-3)>>}

\* Pixel::from_f64 for u32: round to nearest, halves away from zero.
RoundDiv(n, d) == (2 * n + d) \div (2 * d)

\* PhysicalSize<u32>::to_logical::<u32>(scale_factor)
size_to_logical(size, sf) ==
    [width |-> RoundDiv(size.width, sf), height |-> RoundDiv(size.height, sf)]

\* PhysicalPosition<f64>::to_logical::<f32>(scale_factor)
position_to_logical(pos, sf) == <<FDiv(I(pos[1]), I(sf)), FDiv(I(pos[2]), I(sf))>>

InputState_default ==
    [cursor_in_window |-> FALSE, lmb_is_pressed |-> FALSE, cursor_position |-> <<0, 0>>]

Init ==
    /\ scale_factor \in ScaleFactors
    /\ \E size \in InitialSizes :
          camera = Camera_new(size_to_logical(size, scale_factor))
    /\ input_state = InputState_default
    /\ push_constants = "none"
    /\ app_status = "running"
    /\ prev = camera
    /\ last = [event |-> "resumed", op |-> "new", arg |-> camera.viewport_size]
    /\ steps = 0

\* What every operation does besides its own effect.
Step(event, op, arg) ==
    /\ app_status = "running"
    /\ steps < MaxSteps
    /\ steps' = steps + 1
    /\ prev' = camera
    /\ last' = [event |-> event, op |-> op, arg |-> arg]
    /\ UNCHANGED scale_factor

RedrawRequested ==
    /\ Step("RedrawRequested", "calculate_view_projection_matrix", "none")
    /\ push_constants' = calculate_view_projection_matrix(camera)
    /\ UNCHANGED <<camera, input_state, app_status>>

\* main.rs calls the setter `resize`; camera.rs names it set_viewport_size.
Resized ==
    \E new_size \in ResizedSizes :
        LET size == size_to_logical(new_size, scale_factor)
        IN  /\ Step("Resized", "set_viewport_size", size)
            /\ camera' = set_viewport_size(camera, size)
            /\ UNCHANGED <<input_state, push_constants, app_status>>

CloseRequested ==
    /\ Step("CloseRequested", "none", "none")
    /\ app_status' = "exiting"
    /\ UNCHANGED <<camera, input_state, push_constants>>

CursorEntered ==
    /\ Step("CursorEntered", "none", "none")
    /\ input_state' = [input_state EXCEPT !.cursor_in_window = TRUE]
    /\ UNCHANGED <<camera, push_constants, app_status>>

CursorLeft ==
    /\ Step("CursorLeft", "none", "none")
    /\ input_state' = [input_state EXCEPT !.cursor_in_window = FALSE]
    /\ UNCHANGED <<camera, push_constants, app_status>>

MouseInput ==
    \E button \in MouseButtons, is_pressed \in BOOLEAN :
        /\ IF button = "Left"
           THEN /\ Step("MouseInput", "update_lmb_state", is_pressed)
                /\ input_state' = [input_state EXCEPT !.lmb_is_pressed = is_pressed]
                /\ camera' = update_lmb_state(camera, is_pressed)
           ELSE /\ Step("MouseInput", "none", "none")
                /\ UNCHANGED <<camera, input_state>>
        /\ UNCHANGED <<push_constants, app_status>>

CursorMoved ==
    \E position \in CursorPositions :
        LET logical == position_to_logical(position, scale_factor)
        IN  /\ Step("CursorMoved", "update_cursor_position", logical)
            /\ input_state' = [input_state EXCEPT !.cursor_position = position]
            /\ camera' = update_cursor_position(camera, logical)
            /\ UNCHANGED <<push_constants, app_status>>

\* The `_ => ()` arm.
OtherEvent ==
    \E event \in OtherEvents :
        /\ Step(event, "none", "none")
        /\ UNCHANGED <<camera, input_state, push_constants, app_status>>

\* Camera's public methods that App::window_event does not call.
MouseScroll ==
    \E scroll \in Scrolls :
        /\ Step("none", "mouse_scroll", scroll)
        /\ camera' = mouse_scroll(camera, scroll)
        /\ UNCHANGED <<input_state, push_constants, app_status>>

SetZoomSensitivity ==
    \E zoom_sensitivity \in Sensitivities :
        /\ Step("none", "set_zoom_sensitivity", zoom_sensitivity)
        /\ camera' = set_zoom_sensitivity(camera, zoom_sensitivity)
        /\ UNCHANGED <<input_state, push_constants, app_status>>

SetPosition ==
    \E position \in Positions :
        /\ Step("none", "set_position", position)
        /\ camera' = set_position(camera, position)
        /\ UNCHANGED <<input_state, push_constants, app_status>>

Next ==
    \/ RedrawRequested
    \/ Resized
    \/ CloseRequested
    \/ CursorEntered
    \/ CursorLeft
    \/ MouseInput
    \/ CursorMoved
    \/ OtherEvent
    \/ MouseScroll
    \/ SetZoomSensitivity
    \/ SetPosition

Spec == Init /\ [][Next]_vars

---------------------------------------------------------------------------
(* The camera's pure functions, from camera states drawn from bounded sets *)

\* Operations explored from each drawn camera state.
MaxViewSteps == 1

\* Camera states the methods above can produce: zoom within
\* [ZOOM_MIN, ZOOM_MAX], any position, viewport size and cursor position.
ViewZooms == {ZOOM_MIN, <<1, 2>>, I(1), <<11, 10>>, ZOOM_MAX}
ViewPositions == {<<I(0), I(0)>>, <<<<-25, 2>>, <<1, 3>>>>}
ViewSizes == {[width |-> 800, height |-> 600], [width |-> 320, height |-> 320],
              [width |-> 641, height |-> 1]}
ViewCursors == {<<I(0), I(0)>>, <<I(100), I(100)>>, <<<<1, 2>>, <<1, 4>>>>}

InitView ==
    /\ scale_factor = 1
    /\ \E zoom \in ViewZooms, position \in ViewPositions,
          size \in ViewSizes, cursor \in ViewCursors :
          camera = [Camera_new(size) EXCEPT !.zoom = zoom,
                                            !.position = position,
                                            !.cursor_position = cursor]
    /\ input_state = InputState_default
    /\ push_constants = "none"
    /\ app_status = "running"
    /\ prev = camera
    /\ last = [event |-> "none", op |-> "none", arg |-> "none"]
    /\ steps = MaxSteps - MaxViewSteps

SpecView == InitView /\ [][Next]_vars

---------------------------------------------------------------------------
(* Properties *)

\* z is a number within [ZOOM_MIN, ZOOM_MAX] (false of NaN).
ZoomInRange(z) == FLe(ZOOM_MIN, z) /\ FLe(z, ZOOM_MAX)

\* The zoom mouse_scroll computes before clamping, from the state before it.
RawZoom == FAdd(prev.zoom, FMul(last.arg, prev.zoom_sensitivity))

\* C1: after any sequence of camera operations, with any scroll
\* amount and any zoom sensitivity, zoom is within [ZOOM_MIN, ZOOM_MAX].
C1_ZoomAlwaysInRange == ZoomInRange(camera.zoom)

\* Supporting C1: every camera operation started with zoom within
\* [ZOOM_MIN, ZOOM_MAX] leaves it there, unless it is a mouse_scroll whose
\* scroll * zoom_sensitivity is NaN; Camera::new starts with zoom = 1.
C1_ZoomInRangeUnlessNaN ==
    /\ last.op = "new" => ZoomInRange(camera.zoom)
    /\ ( /\ ZoomInRange(prev.zoom)
         /\ ~(last.op = "mouse_scroll" /\ IsNaN(FMul(last.arg, prev.zoom_sensitivity))) )
       => ZoomInRange(camera.zoom)

\* A scroll whose unclamped zoom exceeds ZOOM_MAX has been clamped to it.
C1_Witness ==
    /\ last.op = "mouse_scroll"
    /\ FGt(RawZoom, ZOOM_MAX)
    /\ prev.zoom # ZOOM_MAX
    /\ camera.zoom = ZOOM_MAX

\* C2: every mouse_scroll that changes zoom leaves the world
\* point under the tracked cursor position where it was.
C2_ZoomToCursor ==
    (last.op = "mouse_scroll" /\ camera.zoom # prev.zoom)
       => screen_to_world_position(camera, camera.cursor_position)
            = screen_to_world_position(prev, prev.cursor_position)

\* Supporting C2: every mouse_scroll that changes zoom to a number (not to
\* NaN) leaves the world point under the tracked cursor position where it was.
C2_ZoomToCursorUnlessNaN ==
    (last.op = "mouse_scroll" /\ camera.zoom # prev.zoom /\ ~IsNaN(camera.zoom))
       => screen_to_world_position(camera, camera.cursor_position)
            = screen_to_world_position(prev, prev.cursor_position)

\* A scroll changed zoom with the cursor away from the viewport centre, so
\* position had to move.
C2_Witness ==
    /\ last.op = "mouse_scroll"
    /\ camera.zoom # prev.zoom
    /\ ~IsNaN(camera.zoom)
    /\ camera.position # prev.position
    /\ camera.cursor_position # <<I(0), I(0)>>

\* C3: update_cursor_position with the drag flag false changes only the
\* tracked cursor position.
C3_NoOpOutsideDrag ==
    (last.op = "update_cursor_position" /\ ~prev.lmb_is_pressed)
       => /\ camera.position = prev.position
          /\ camera.zoom = prev.zoom
          /\ camera.zoom_sensitivity = prev.zoom_sensitivity
          /\ camera.viewport_size = prev.viewport_size
          /\ camera.lmb_is_pressed = prev.lmb_is_pressed

C3_Witness ==
    /\ last.op = "update_cursor_position"
    /\ ~prev.lmb_is_pressed
    /\ prev.cursor_position # <<I(0), I(0)>>
    /\ camera.cursor_position # prev.cursor_position

\* The state the drag scenario of C4 starts from and the move it makes.
C4_Scenario ==
    /\ last.op = "update_cursor_position"
    /\ prev.position = <<I(0), I(0)>>
    /\ prev.zoom = I(1)
    /\ prev.lmb_is_pressed
    /\ prev.cursor_position = <<I(100), I(100)>>
    /\ last.arg = <<I(80), I(90)>>

\* C4 (as claimed): from position (0,0), zoom 1, dragging, cursor at
\* (100,100), a move to (80,90) moves position by (+20, +10).
C4_DragDelta == C4_Scenario => camera.position = <<I(20), I(10)>>

\* C4 (amended): the same move moves position by (+20, -10).
C4_DragDeltaFlippedY == C4_Scenario => camera.position = <<I(20), I(-10)>>

C4_Witness == C4_Scenario /\ camera.cursor_position = <<I(80), I(90)>>

\* position moved by ((last.x - new.x) / zoom, -(last.y - new.y) / zoom),
\* stated without the division.
DragDeltaApplied ==
    /\ FMul(FSub(camera.position[1], prev.position[1]), prev.zoom)
         = FSub(prev.cursor_position[1], last.arg[1])
    /\ FMul(FSub(camera.position[2], prev.position[2]), prev.zoom)
         = FNeg(FSub(prev.cursor_position[2], last.arg[2]))

\* C5 (as claimed): every update_cursor_position while dragging, from any
\* tracked cursor position and any zoom in range, moves position by
\* ((last.x - new.x) / zoom, -(last.y - new.y) / zoom).
C5_DragFormula ==
    ( /\ last.op = "update_cursor_position"
      /\ prev.lmb_is_pressed
      /\ ZoomInRange(prev.zoom) )
       => DragDeltaApplied

\* The tracked cursor position is the all-zero sentinel of update_cursor_position.
IsSentinel(cursor_position) ==
    ApproxEq(cursor_position[1], I(0)) /\ ApproxEq(cursor_position[2], I(0))

\* C5 (amended): the same, for every tracked cursor position except (0,0).
C5_DragFormulaOffSentinel ==
    ( /\ last.op = "update_cursor_position"
      /\ prev.lmb_is_pressed
      /\ ZoomInRange(prev.zoom)
      /\ ~IsSentinel(prev.cursor_position) )
       => DragDeltaApplied

\* A drag move at a zoom other than 1 that moved position.
C5_Witness ==
    /\ last.op = "update_cursor_position"
    /\ prev.lmb_is_pressed
    /\ ZoomInRange(prev.zoom)
    /\ prev.zoom # I(1)
    /\ ~IsSentinel(prev.cursor_position)
    /\ camera.position # prev.position

\* C6: set_viewport_size(size) stores size as it is and changes nothing else.
C6_ResizeIndependence ==
    last.op = "set_viewport_size"
       => /\ camera.viewport_size = last.arg
          /\ camera.position = prev.position
          /\ camera.zoom = prev.zoom
          /\ camera.zoom_sensitivity = prev.zoom_sensitivity
          /\ camera.lmb_is_pressed = prev.lmb_is_pressed
          /\ camera.cursor_position = prev.cursor_position

\* A resize to the smallest height, after the camera moved and zoomed.
C6_Witness ==
    /\ last.op = "set_viewport_size"
    /\ camera.viewport_size.height = 1
    /\ camera.viewport_size # prev.viewport_size
    /\ camera.zoom # I(1)
    /\ camera.position # <<I(0), I(0)>>

\* World to screen through the view-projection transform: the translation,
\* the orthographic projection to normalized device coordinates, and the
\* viewport transform (y down, origin at the top left corner).
world_to_screen(cam, world) ==
    LET m == calculate_view_projection_matrix(cam)
        vx == FAdd(world[1], m.translation[1])
        vy == FAdd(world[2], m.translation[2])
        ndc_x == FDiv(FSub(FMul(I(2), vx), FAdd(m.right, m.left)), FSub(m.right, m.left))
        ndc_y == FDiv(FSub(FMul(I(2), vy), FAdd(m.top, m.bottom)), FSub(m.top, m.bottom))
    IN  <<FMul(FDiv(FAdd(ndc_x, I(1)), I(2)), I(cam.viewport_size.width)),
          FMul(FDiv(FSub(I(1), ndc_y), I(2)), I(cam.viewport_size.height))>>

\* World to screen as C8 words it: subtract position, multiply by zoom, flip
\* y, add the viewport centre.
world_to_screen_direct(cam, world) ==
    <<FAdd(FMul(FSub(world[1], cam.position[1]), cam.zoom),
           FDiv(I(cam.viewport_size.width), I(2))),
      FAdd(FNeg(FMul(FSub(world[2], cam.position[2]), cam.zoom)),
           FDiv(I(cam.viewport_size.height), I(2)))>>

\* Screen points inside the viewport of cam: two opposite corners, an
\* interior point and the tracked cursor position when it is inside.
ScreenPoints(cam) ==
    LET W == cam.viewport_size.width
        H == cam.viewport_size.height
        c == cam.cursor_position
    IN  {<<I(W), I(0)>>, <<I(0), I(H)>>, <<<<1, 2>>, <<1, 3>>>>}
        \cup (IF FLe(c[1], I(W)) /\ FLe(c[2], I(H)) THEN {c} ELSE {})

\* The bounds of the orthographic projection.
Bounds(m) == <<m.left, m.right, m.bottom, m.top>>

\* C7: the orthographic bounds are -W/(2 zoom), W/(2 zoom), -H/(2 zoom),
\* H/(2 zoom) (stated without the division), whatever position is; they are
\* -400, 400, -300, 300 for 800 x 600 at zoom 1; the call changes no field.
C7_OrthographicBounds ==
    LET m == calculate_view_projection_matrix(camera)
        W == camera.viewport_size.width
        H == camera.viewport_size.height
        z2 == FMul(I(2), camera.zoom)
    IN  /\ ZoomInRange(camera.zoom)
             => /\ FMul(m.left, z2) = I(-W)
                /\ FMul(m.right, z2) = I(W)
                /\ FMul(m.bottom, z2) = I(-H)
                /\ FMul(m.top, z2) = I(H)
        /\ IsNaN(camera.zoom) => Bounds(m) = <<NaN, NaN, NaN, NaN>>
        /\ \A p \in Positions \cup {<<I(0), I(0)>>} :
              Bounds(calculate_view_projection_matrix(set_position(camera, p))) = Bounds(m)
        /\ (W = 800 /\ H = 600 /\ camera.zoom = I(1))
             => Bounds(m) = <<I(-400), I(400), I(-300), I(300)>>
        /\ last.op = "calculate_view_projection_matrix"
             => camera = prev /\ push_constants = m

\* A frame was rendered with the camera zoomed and moved.
C7_Witness ==
    /\ last.op = "calculate_view_projection_matrix"
    /\ ZoomInRange(camera.zoom)
    /\ camera.zoom # I(1)
    /\ camera.position # <<I(0), I(0)>>
    /\ camera.viewport_size.width # 800
    /\ push_constants.left # I(-400)

\* C8: for zoom within [ZOOM_MIN, ZOOM_MAX] and every screen point S inside
\* the viewport, mapping screen_to_world_position(S) back to the screen
\* gives S, through the view-projection transform and through the direct
\* formula alike.
C8_RoundTrip ==
    ZoomInRange(camera.zoom)
       => \A S \in ScreenPoints(camera) :
             /\ world_to_screen(camera, screen_to_world_position(camera, S)) = S
             /\ world_to_screen_direct(camera, screen_to_world_position(camera, S)) = S

\* A camera zoomed, moved and resized, with the cursor inside the viewport
\* and its world point elsewhere than its screen point.
C8_Witness ==
    /\ ZoomInRange(camera.zoom)
    /\ camera.zoom # I(1)
    /\ camera.position # <<I(0), I(0)>>
    /\ camera.viewport_size.width # 800
    /\ camera.cursor_position \in ScreenPoints(camera)
    /\ screen_to_world_position(camera, camera.cursor_position) # camera.cursor_position

\* C9: a pixel-delta scroll event is surfaced as a panic and does not change
\* the camera.
C9_PixelScrollSurfaced ==
    last.event = "MouseWheel_PixelDelta"
       => app_status = "panicked" /\ camera = prev

\* C10: after update_cursor_position(new_pos) the tracked cursor position is
\* new_pos, on every path.
C10_CursorTracked ==
    last.op = "update_cursor_position" => camera.cursor_position = last.arg

\* The early return: dragging from the all-zero tracked position.
C10_Witness ==
    /\ last.op = "update_cursor_position"
    /\ prev.lmb_is_pressed
    /\ IsSentinel(prev.cursor_position)
    /\ last.arg # <<I(0), I(0)>>
    /\ camera.position = prev.position

\* The camera `before` moved by the drag delta of a pointer move to new_pos:
\* position + ((last.x - new.x) / zoom, -(last.y - new.y) / zoom).
NormalDelta(before, new_pos) ==
    <<FAdd(before.position[1],
           FDiv(FSub(before.cursor_position[1], new_pos[1]), before.zoom)),
      FSub(before.position[2],
           FDiv(FSub(before.cursor_position[2], new_pos[2]), before.zoom))>>

\* The operation now taken is update_cursor_position while dragging.
DragMoveNow == last'.op = "update_cursor_position" /\ camera.lmb_is_pressed

\* The current state is the result of a sentinel baseline move.
AfterBaseline ==
    /\ last.op = "update_cursor_position"
    /\ prev.lmb_is_pressed
    /\ IsSentinel(prev.cursor_position)

\* A move while dragging from the tracked position (0,0) changes only the
\* tracked cursor position, which becomes new_pos.
BaselineMove ==
    (DragMoveNow /\ IsSentinel(camera.cursor_position))
       => camera' = [camera EXCEPT !.cursor_position = last'.arg]

\* C11 (as claimed): a move while dragging from the tracked position (0,0)
\* only sets the tracked cursor position, and the next move of the same drag
\* applies the normal delta.
C11_SentinelBaseline ==
    [][ /\ BaselineMove
        /\ (AfterBaseline /\ DragMoveNow)
             => camera'.position = NormalDelta(camera, last'.arg) ]_vars

\* C11 (amended): a move while dragging from the tracked position (0,0) only
\* sets the tracked cursor position, and the next move of the same drag
\* applies the normal delta unless the baseline move itself went to (0,0).
C11_SentinelBaselineOffOrigin ==
    [][ /\ BaselineMove
        /\ (AfterBaseline /\ DragMoveNow /\ ~IsSentinel(camera.cursor_position))
             => camera'.position = NormalDelta(camera, last'.arg) ]_vars

\* A baseline move from an origin the pointer really visited: the drag had
\* taken the cursor from (100,100) to (0,0), and the move away from there
\* left position alone.
C11_Witness ==
    /\ last.op = "update_cursor_position"
    /\ prev.lmb_is_pressed
    /\ prev.cursor_position = <<I(0), I(0)>>
    /\ prev.position = <<I(100), I(-100)>>
    /\ last.arg # <<I(0), I(0)>>
    /\ camera.position = prev.position
    /\ camera.cursor_position = last.arg

\* C12: update_lmb_state(pressed) sets the drag flag to pressed and changes
\* nothing else; no other operation or event, a press or release of another
\* mouse button included, changes the drag flag.
C12_LmbStateOnly ==
    /\ last.op = "update_lmb_state"
         => /\ last.event = "MouseInput"
            /\ camera = [prev EXCEPT !.lmb_is_pressed = last.arg]
            /\ input_state.lmb_is_pressed = last.arg
    /\ (last.op # "update_lmb_state" /\ last.op # "new")
         => camera.lmb_is_pressed = prev.lmb_is_pressed
    /\ (last.event = "MouseInput" /\ last.op = "none") => camera = prev

\* A press of the left button with the pointer already seen away from (0,0):
\* the tracked cursor position is kept.
C12_Witness ==
    /\ last.op = "update_lmb_state"
    /\ last.arg = TRUE
    /\ ~prev.lmb_is_pressed
    /\ camera.lmb_is_pressed
    /\ prev.cursor_position # <<I(0), I(0)>>
    /\ camera.cursor_position = prev.cursor_position

\* cam with the drag flag inverted.
FlipDrag(cam) == [cam EXCEPT !.lmb_is_pressed = ~cam.lmb_is_pressed]

\* C13: mouse_scroll gives the same zoom and position from the state that
\* differs only in the drag flag, and changes neither the drag flag nor the
\* tracked cursor position nor the viewport size.
C13_ScrollIgnoresDrag ==
    last.op = "mouse_scroll"
       => /\ mouse_scroll(FlipDrag(prev), last.arg).zoom = camera.zoom
          /\ mouse_scroll(FlipDrag(prev), last.arg).position = camera.position
          /\ camera.lmb_is_pressed = prev.lmb_is_pressed
          /\ camera.cursor_position = prev.cursor_position
          /\ camera.viewport_size = prev.viewport_size

\* A scroll during a drag that changed zoom and position.
C13_Witness ==
    /\ last.op = "mouse_scroll"
    /\ prev.lmb_is_pressed
    /\ ZoomInRange(camera.zoom)
    /\ camera.zoom # prev.zoom
    /\ camera.position # prev.position

\* C14: a mouse_scroll whose clamped new zoom equals the current zoom changes
\* no camera field.
C14_SaturatedScrollNoOp ==
    ( /\ last.op = "mouse_scroll"
      /\ FEq(f32_clamp(RawZoom, ZOOM_MIN, ZOOM_MAX), prev.zoom) )
       => camera = prev

\* A scroll further in at ZOOM_MAX, with the cursor away from the centre.
C14_Witness ==
    /\ last.op = "mouse_scroll"
    /\ prev.zoom = ZOOM_MAX
    /\ FGt(RawZoom, ZOOM_MAX)
    /\ screen_to_world_position(prev, prev.cursor_position) # prev.position
    /\ camera = prev

\* The world point under the cursor after the move now taken is the one
\* that was under it before.
GrabPointKept ==
    screen_to_world_position(camera', last'.arg)
       = screen_to_world_position(camera, camera.cursor_position)

\* The current state is the result of a move made while dragging.
AfterDragMove == last.op = "update_cursor_position" /\ prev.lmb_is_pressed

\* C15 (as claimed): a move while dragging from a tracked position other
\* than (0,0), at a zoom in range, keeps the world point under the cursor;
\* and so does every move that follows another move of the same drag.
C15_GrabPoint ==
    [][ (DragMoveNow /\ ZoomInRange(camera.zoom))
          => /\ ~IsSentinel(camera.cursor_position) => GrabPointKept
             /\ AfterDragMove => GrabPointKept ]_vars

\* C15 (amended): a move while dragging from a tracked position other than
\* (0,0), at a zoom in range, keeps the world point under the cursor; so a
\* drag keeps its grabbed point as long as none of its moves ends at (0,0).
C15_GrabPointOffOrigin ==
    [][ (DragMoveNow /\ ZoomInRange(camera.zoom) /\ ~IsSentinel(camera.cursor_position))
          => GrabPointKept ]_vars

\* A drag move at a zoom other than 1 and a viewport other than the initial
\* one that moved position and kept the grabbed point.
C15_Witness ==
    /\ last.op = "update_cursor_position"
    /\ prev.lmb_is_pressed
    /\ ~IsSentinel(prev.cursor_position)
    /\ ZoomInRange(prev.zoom)
    /\ prev.zoom # I(1)
    /\ camera.position # prev.position
    /\ screen_to_world_position(camera, camera.cursor_position)
         = screen_to_world_position(prev, prev.cursor_position)

===========================================================================
